---- MODULE Spec2Model ----
(***************************************************************************)
(* Model of the multi-step RAG pipeline of src/agents.py (RAGAgent), with  *)
(* its collaborators VectorStoreManager (src/vector_store.py) and          *)
(* DocumentProcessor.find_table_reference (src/document_processor.py).     *)
(*                                                                         *)
(* The language model, the embedding/FAISS search and the file system are  *)
(* external: each call to them is a nondeterministic choice over the       *)
(* outcomes the call can have.                                             *)
(***************************************************************************)
EXTENDS Integers, Sequences, FiniteSets

(***************************************************************************)
(* Bounds of the model.                                                    *)
(***************************************************************************)
\* largest number of chunks held by the persisted index
MaxIndex == 4
\* number of process_question calls made on the one agent
MaxQuestions == 2

(***************************************************************************)
(* Program constants.                                                      *)
(***************************************************************************)
\* agents.py:117  self.vector_store.search(search_query, k=3)
K == 3

\* agents.py:189
InsufficientMessage == "I apologize, but I couldn't generate a response based on the available context. Please try rephrasing your question or provide more specific details."

\* agents.py:199
ErrorMessage == "I encountered an error while processing your question. Please try again or rephrase your question."

\* vector_store.py:41
IndexMissingError == [type |-> "ValueError", msg |-> "Vector store not found. Please run ingest_docs.py first."]

\* an error raised by the collaborator's similarity_search (vector_store.py:60)
SearchError == [type |-> "SearchError", msg |-> "similarity_search failed"]

\* the value of an error slot when nothing was raised
NoError == [type |-> "", msg |-> ""]

(***************************************************************************)
(* Text: a Python str is a sequence of one-character strings, so that      *)
(* str.lower() and the substring test are computed, not assumed.           *)
(***************************************************************************)
UpperCase == <<"A","B","C","D","E","F","G","H","I","J","K","L","M","N","O","P","Q","R","S","T","U","V","W","X","Y","Z">>

LowerCase == <<"a","b","c","d","e","f","g","h","i","j","k","l","m","n","o","p","q","r","s","t","u","v","w","x","y","z">>

\* str.lower() on one character
LowerChar(c) ==
    IF \E i \in DOMAIN UpperCase : UpperCase[i] = c
    THEN LowerCase[CHOOSE i \in DOMAIN UpperCase : UpperCase[i] = c]
    ELSE c

\* document_processor.py:71  chunk.page_content.lower()
Lower(s) == [i \in DOMAIN s |-> LowerChar(s[i])]

\* Python's  sub in s  for strings
IsSubstring(sub, s) ==
    \E i \in 0..(Len(s) - Len(sub)) : SubSeq(s, i + 1, i + Len(sub)) = sub

\* document_processor.py:74,76  the literal "table"
TableMarker == <<"t","a","b","l","e">>

\* document_processor.py:71,74 and :76   "table" in chunk.page_content.lower()
HasTableMarker(chunk) == IsSubstring(TableMarker, Lower(chunk.page_content))

(***************************************************************************)
(* Chunks: langchain Documents, compared structurally (page_content and    *)
(* metadata).                                                              *)
(***************************************************************************)
\* "see Table 1"
ChunkA == [page_content |-> <<"s","e","e"," ","T","a","b","l","e"," ","1">>, source |-> "tariff.pdf"]

\* "TABLE 1: $5"
ChunkB == [page_content |-> <<"T","A","B","L","E"," ","1",":"," ","$","5">>, source |-> "tariff.pdf"]

\* "port tab" : no marker, only a prefix of it
ChunkX == [page_content |-> <<"p","o","r","t"," ","t","a","b">>, source |-> "tariff.pdf"]

Chunks == {ChunkA, ChunkB, ChunkX}

\* number of positions of sequence s that hold c
Count(s, c) == Cardinality({i \in DOMAIN s : s[i] = c})

\* the chunks of a sequence, as a set
Range(s) == {s[i] : i \in DOMAIN s}

Min(a, b) == IF a <= b THEN a ELSE b

(***************************************************************************)
(* The persisted index: how many copies of each chunk it holds (the rank   *)
(* of a chunk for a query is the collaborator's choice, so the order of    *)
(* insertion is not kept).  FAISS.from_documents cannot build an empty     *)
(* index, so an index that exists holds at least one chunk.                *)
(***************************************************************************)
EmptyIndex == [c \in Chunks |-> 0]

RECURSIVE SumOver(_, _)
SumOver(f, S) ==
    IF S = {} THEN 0
    ELSE LET c == CHOOSE x \in S : TRUE IN f[c] + SumOver(f, S \ {c})

IndexSize(docs) == SumOver(docs, Chunks)

Indexes == {d \in [Chunks -> 0..MaxIndex] : IndexSize(d) >= 1 /\ IndexSize(d) <= MaxIndex}

\* vector_store.py:60  similarity_search(query, k=k): the k nearest chunks
\* of the index (all of them when it holds fewer), in the order of the
\* collaborator's ranking, which is not determined by the pipeline.
SimilaritySearch(docs, k) ==
    {s \in [1..Min(k, IndexSize(docs)) -> Chunks] : \A c \in Chunks : Count(s, c) <= docs[c]}

(***************************************************************************)
(* Python values held in search_query: a str or None.                      *)
(***************************************************************************)
PyStr(s) == [type |-> "str", value |-> s]

PyNone == [type |-> "NoneType", value |-> ""]

(***************************************************************************)
(* The language-model collaborator.  One call either raises, returns None, *)
(* returns an object without a content attribute, or returns an object     *)
(* with content.                                                           *)
(***************************************************************************)
LLMRaises == [kind |-> "raises", content |-> ""]

LLMNone == [kind |-> "none", content |-> ""]

LLMNoContent == [kind |-> "no_content", content |-> ""]

LLMContent(text) == [kind |-> "content", content |-> text]

\* the value of the record of a call when the model was not called
LLMNotInvoked == [kind |-> "not_invoked", content |-> ""]

\* texts the model may send back to the analysis prompt (agents.py:96)
JsonGood == "{\"is_tariff_related\": true, \"tariff_name\": \"anchorage dues\", \"search_query\": \"anchorage dues cost\"}"

JsonEmptyQuery == "{\"is_tariff_related\": false, \"tariff_name\": null, \"search_query\": \"\"}"

JsonNullQuery == "{\"is_tariff_related\": false, \"tariff_name\": null, \"search_query\": null}"

JsonNoKey == "{\"is_tariff_related\": true, \"tariff_name\": \"anchorage dues\"}"

JsonArray == "[\"anchorage dues cost\"]"

\* valid JSON that is a string, not an object
JsonScalar == "\"anchorage dues cost\""

NotJson == "The question is about anchorage dues."

AnalysisTexts ==
    {JsonGood, JsonEmptyQuery, JsonNullQuery, JsonNoKey, JsonArray, JsonScalar, NotJson, ""}

AnalysisResponses ==
    {LLMRaises, LLMNone, LLMNoContent} \cup {LLMContent(t) : t \in AnalysisTexts}

\* texts the model may send back to the generation prompt (agents.py:176)
AnswerText == "Anchorage dues are $5 per gross ton."

GenerationResponses == {LLMRaises, LLMNone, LLMNoContent, LLMContent(""), LLMContent(AnswerText)}

(***************************************************************************)
(* json.loads on the texts above: a decode error, or the parsed value      *)
(* (a dict with its "search_query" entry when it has one, or a list).      *)
(***************************************************************************)
JsonDict(has, v) == [ok |-> TRUE, type |-> "dict", has_search_query |-> has, search_query |-> v]

JsonList == [ok |-> TRUE, type |-> "list", has_search_query |-> FALSE, search_query |-> PyNone]

JsonString == [ok |-> TRUE, type |-> "str", has_search_query |-> FALSE, search_query |-> PyNone]

JsonDecodeFailure == [ok |-> FALSE, type |-> "", has_search_query |-> FALSE, search_query |-> PyNone]

\* agents.py:100  json.loads(analysis.content)
JsonLoads(text) ==
    CASE text = JsonGood -> JsonDict(TRUE, PyStr("anchorage dues cost"))
      [] text = JsonEmptyQuery -> JsonDict(TRUE, PyStr(""))
      [] text = JsonNullQuery -> JsonDict(TRUE, PyNone)
      [] text = JsonNoKey -> JsonDict(FALSE, PyNone)
      [] text = JsonArray -> JsonList
      [] text = JsonScalar -> JsonString
      [] OTHER -> JsonDecodeFailure

(***************************************************************************)
(* Stage 1: _analyze_query (agents.py:72-111).                             *)
(***************************************************************************)
Outcome(exc, v) == [exc |-> exc, value |-> v]

\* the mutant: the entry is read with dict.get, a missing key gives None
AnalysisOutcomeGet(resp) ==
    CASE resp.kind = "raises" -> Outcome("Exception", PyNone)
      [] resp.kind \in {"none", "no_content"} -> Outcome("AttributeError", PyNone)
      [] OTHER ->
           LET data == JsonLoads(resp.content) IN
           CASE ~data.ok -> Outcome("JSONDecodeError", PyNone)
             [] data.type # "dict" -> Outcome("AttributeError", PyNone)
             [] OTHER -> Outcome("", data.search_query)

\* agents.py:96-101: the call and the parse; exc names the exception the
\* lines raise ("" when they complete), value the value then stored in
\* search_query.
AnalysisOutcome(resp) ==
    CASE resp.kind = "raises" -> Outcome("Exception", PyNone)
      \* analysis.content on None, or on an object without content
      [] resp.kind \in {"none", "no_content"} -> Outcome("AttributeError", PyNone)
      [] OTHER ->
           LET data == JsonLoads(resp.content) IN
           CASE ~data.ok -> Outcome("JSONDecodeError", PyNone)
             \* analysis_data["search_query"] on a list or on a str
             [] data.type # "dict" -> Outcome("TypeError", PyNone)
             [] ~data.has_search_query -> Outcome("KeyError", PyNone)
             [] OTHER -> Outcome("", data.search_query)

\* the mutant: the handlers leave search_query as process_question built it
AnalyzeFallbackKeepsEmpty(question) == PyStr("")

\* agents.py:105 and :110  state["search_query"] = question
AnalyzeFallback(question) == PyStr(question)

\* agents.py:98-111: the value of search_query when the stage returns
AnalyzeSearchQuery(question, resp) ==
    LET r == AnalysisOutcome(resp) IN
    CASE r.exc = "" -> r.value
      \* except json.JSONDecodeError (agents.py:103-105)
      [] r.exc = "JSONDecodeError" -> AnalyzeFallback(question)
      \* except Exception (agents.py:108-111)
      [] OTHER -> AnalyzeFallback(question)

(***************************************************************************)
(* Stage 3: _check_for_tables (agents.py:124-143).                         *)
(***************************************************************************)
\* document_processor.py:68-79
FindTableReference(chunk, all_chunks) ==
    IF HasTableMarker(chunk)
    THEN SelectSeq(all_chunks, LAMBDA other : other # chunk /\ HasTableMarker(other))
    ELSE <<>>

\* agents.py:130-132: the references of every chunk of the context, in order
RECURSIVE AdditionalContext(_, _, _)
AdditionalContext(context, all_chunks, i) ==
    IF i > Len(context) THEN <<>>
    ELSE FindTableReference(context[i], all_chunks) \o AdditionalContext(context, all_chunks, i + 1)

\* the mutant: every reference is appended, already present or not
AppendAll(context, additional) == context \o additional

\* the mutant: the membership test is inverted
RECURSIVE AppendIfPresent(_, _)
AppendIfPresent(context, additional) ==
    IF additional = <<>> THEN context
    ELSE AppendIfPresent(IF Head(additional) \in Range(context)
                         THEN Append(context, Head(additional))
                         ELSE context,
                         Tail(additional))

\* agents.py:135-137: append the references the context does not hold yet
RECURSIVE AppendUnique(_, _)
AppendUnique(context, additional) ==
    IF additional = <<>> THEN context
    ELSE AppendUnique(IF Head(additional) \in Range(context)
                      THEN context
                      ELSE Append(context, Head(additional)),
                      Tail(additional))

\* a sequence without the later copies of its elements
RECURSIVE Dedup(_)
Dedup(seq) ==
    IF seq = <<>> THEN <<>>
    ELSE LET front == Dedup(SubSeq(seq, 1, Len(seq) - 1))
             last == seq[Len(seq)]
         IN  IF last \in Range(front) THEN front ELSE Append(front, last)

\* the mutant: the whole sequence is deduplicated after the append
ExpandContextDedup(context) ==
    Dedup(context \o AdditionalContext(context, context, 1))

\* agents.py:127-139: the context the stage writes back
ExpandContext(context) == AppendUnique(context, AdditionalContext(context, context, 1))

(***************************************************************************)
(* Stage 4: _generate_response (agents.py:145-200).                        *)
(***************************************************************************)
\* agents.py:176-191: exc names the exception raised by the lines, value the
\* response_content they compute.
\* the mutant: empty content is used as it is (no default message)
ResponseContentVerbatim(resp) ==
    CASE resp.kind = "raises" -> Outcome("Exception", "")
      [] resp.kind = "none" -> Outcome("ValueError", "")
      [] resp.kind = "no_content" -> Outcome("AttributeError", "")
      [] OTHER -> Outcome("", resp.content)

ResponseContent(resp) ==
    CASE resp.kind = "raises" -> Outcome("Exception", "")
      \* agents.py:181-182  if not response: raise ValueError
      [] resp.kind = "none" -> Outcome("ValueError", "")
      \* agents.py:178  response.content in the log line
      [] resp.kind = "no_content" -> Outcome("AttributeError", "")
      \* agents.py:187-189
      [] resp.content = "" -> Outcome("", InsufficientMessage)
      \* agents.py:191
      [] OTHER -> Outcome("", resp.content)

StageResult(raised, message) == [raised |-> raised, message |-> message]

\* the mutant: the handler re-raises, as the handlers of stages 2 and 3 do
GenerateExceptReraises == StageResult(TRUE, "")

\* the mutant: the handler answers with the message kept for empty content
GenerateExceptInsufficient == StageResult(FALSE, InsufficientMessage)

\* agents.py:196-200: the handler appends the fixed message and returns
GenerateExcept == StageResult(FALSE, ErrorMessage)

\* the mutant: the stage has no handler, what its body raises leaves it
GenerateResultUnhandled(dump_ok, resp) ==
    IF ~dump_ok THEN StageResult(TRUE, "")
    ELSE LET r == ResponseContent(resp) IN
         IF r.exc # "" THEN StageResult(TRUE, "") ELSE StageResult(FALSE, r.value)

\* agents.py:147-200: the message the stage appends.  dump_ok tells whether
\* writing temp_context.txt (agents.py:155-164) succeeded; when it fails
\* the model is not called.
GenerateResult(dump_ok, resp) ==
    IF ~dump_ok THEN GenerateExcept
    ELSE LET r == ResponseContent(resp) IN
         IF r.exc # "" THEN GenerateExcept ELSE StageResult(FALSE, r.value)

(***************************************************************************)
(* Error propagation: each handler on the way of an exception, as a map    *)
(* from the exception caught to the exception that leaves the handler.     *)
(***************************************************************************)
\* vector_store.py:49-51  log, then  raise
LoadVectorStoreExcept(e) == e

\* vector_store.py:62-64  log, then  raise
SearchExcept(e) == e

\* the mutant: the handler raises an error of its own instead
RetrieveContextExceptWraps(e) == [type |-> "RuntimeError", msg |-> "Error retrieving context"]

\* agents.py:120-122  log, then  raise
RetrieveContextExcept(e) == e

\* agents.py:141-143  log, then  raise
CheckForTablesExcept(e) == e

\* agents.py:218-220  log, then  raise
ProcessQuestionExcept(e) == e

(***************************************************************************)
(* State.                                                                  *)
(***************************************************************************)
VARIABLES
    pc,              \* where the current process_question call stands
    state,           \* the AgentState of the current call (agents.py:21-25)
    vector_store,    \* VectorStoreManager.vector_store (None, or the loaded index)
    index_exists,    \* whether index_path exists on disk
    index,           \* the chunks of the persisted index
    result,          \* what the current call gave its caller
    calls,           \* number of process_question calls started
    llm_analysis,    \* what the model did in the analysis stage of this call
    llm_generation,  \* what the model did in the generation stage of this call
    search_arg,      \* the query the retrieval stage passed to search
    raised_in,       \* the stage in which the error of this call was raised
    retrieved,       \* what search returned to the retrieval stage of this call
    stages,          \* the workflow nodes run in this call, in order
    llm_calls,       \* how often each stage of this call invoked the model
    dump_written,    \* whether this call wrote temp_context.txt
    prev_kind,       \* how the previous call on the agent ended
    loads,           \* how often FAISS.load_local ran on the manager
    tpc,             \* concurrent callers of search: where each one stands
    asked            \* the string the caller passed to process_question

vars == <<pc, state, vector_store, index_exists, index, result, calls,
          llm_analysis, llm_generation, search_arg, raised_in,
          retrieved, stages, llm_calls, dump_written, prev_kind, loads, tpc, asked>>

\* number of callers that share the manager in the concurrent specification
NumThreads == 2

Threads == 1..NumThreads

\* agents.py:57-68: the nodes in the order of the edges, from the entry point
WorkflowOrder == <<"analyze_query", "retrieve_context", "check_for_tables", "generate_response">>

\* the mutant: an edge leads from the last node back to the entry point
NextNodeCycles(node) ==
    CASE node = "analyze_query" -> "retrieve_context"
      [] node = "retrieve_context" -> "check_for_tables"
      [] node = "check_for_tables" -> "generate_response"
      [] OTHER -> "analyze_query"

\* agents.py:63-65: the edges; a node without an edge ends the workflow
NextNode(node) ==
    CASE node = "analyze_query" -> "retrieve_context"
      [] node = "retrieve_context" -> "check_for_tables"
      [] node = "check_for_tables" -> "generate_response"
      [] OTHER -> "workflow_done"

NoCalls == [analysis |-> 0, generation |-> 0]

\* questions a caller may ask; main.py:36 strips the input, which may leave ""
Questions == {"", "What is the anchorage due?", "What are the port charges?"}

NotLoaded == [loaded |-> FALSE, docs |-> EmptyIndex]

NoResult == [kind |-> "none", value |-> "", error |-> NoError]

Returned(v) == [kind |-> "return", value |-> v, error |-> NoError]

Raised(e) == [kind |-> "raise", value |-> "", error |-> e]

NoSearch == [called |-> FALSE, query |-> PyNone]

\* agents.py:206-211
InitialState(question) ==
    [messages |-> <<>>, context |-> <<>>, question |-> question, search_query |-> PyStr("")]

\* RAGAgent.__init__ (agents.py:28-40) and VectorStoreManager.__init__
\* (vector_store.py:19): nothing is loaded, no question was asked.
Init ==
    /\ pc = "idle"
    /\ state = InitialState("")
    /\ vector_store = NotLoaded
    /\ index_exists \in BOOLEAN
    /\ index \in (IF index_exists THEN Indexes ELSE {EmptyIndex})
    /\ result = NoResult
    /\ calls = 0
    /\ llm_analysis = LLMNotInvoked
    /\ llm_generation = LLMNotInvoked
    /\ search_arg = NoSearch
    /\ raised_in = ""
    /\ retrieved = <<>>
    /\ stages = <<>>
    /\ llm_calls = NoCalls
    /\ dump_written = FALSE
    /\ prev_kind = "none"
    /\ loads = 0
    /\ tpc = [t \in Threads |-> "start"]
    /\ asked = ""

\* an exception leaves the workflow in the given stage and crosses
\* process_question through its handler (agents.py:218-220)
RaiseFrom(stage, e) ==
    /\ pc' = "raised"
    /\ result' = Raised(ProcessQuestionExcept(e))
    /\ raised_in' = stage

\* the mutant: the state of the previous call is kept, only the question is new
CallStateReused(previous, question) == [previous EXCEPT !.question = question]

\* agents.py:206-214: the state a call hands to the workflow, whatever the
\* state of the previous call was
CallState(previous, question) == InitialState(question)

\* agents.py:202-214: a new call builds its state and enters the workflow
ProcessQuestion ==
    /\ pc \in {"idle", "returned", "raised"}
    /\ calls < MaxQuestions
    /\ \E question \in Questions :
         /\ asked' = question
         /\ state' = CallState(state, question)
    /\ pc' = "analyze_query"
    /\ calls' = calls + 1
    /\ result' = NoResult
    /\ llm_analysis' = LLMNotInvoked
    /\ llm_generation' = LLMNotInvoked
    /\ search_arg' = NoSearch
    /\ raised_in' = ""
    /\ retrieved' = <<>>
    /\ stages' = <<>>
    /\ llm_calls' = NoCalls
    /\ dump_written' = FALSE
    /\ prev_kind' = result.kind
    /\ UNCHANGED <<vector_store, index_exists, index, loads, tpc>>

\* the mutant: a call that raised or returned no JSON is made once more
AnalysisInvocationsRetry(resp) == IF AnalysisOutcome(resp).exc # "" THEN 2 ELSE 1

\* agents.py:95-96: chain.invoke is called once, nothing calls it again
AnalysisInvocations(resp) == 1

\* the mutant: the stage writes the rewritten query over the question
AnalyzedStateOverwritesQuestion(s, resp) ==
    [s EXCEPT !.search_query = AnalyzeSearchQuery(s.question, resp),
              !.question = AnalyzeSearchQuery(s.question, resp).value]

\* agents.py:101, :105, :110: the only field the stage writes
AnalyzedState(s, resp) ==
    [s EXCEPT !.search_query = AnalyzeSearchQuery(s.question, resp)]

\* agents.py:72-111
AnalyzeQuery ==
    /\ pc = "analyze_query"
    /\ \E resp \in AnalysisResponses :
         /\ llm_analysis' = resp
         /\ state' = AnalyzedState(state, resp)
         /\ llm_calls' = [llm_calls EXCEPT !.analysis = @ + AnalysisInvocations(resp)]
    /\ stages' = Append(stages, "analyze_query")
    /\ pc' = NextNode("analyze_query")
    /\ UNCHANGED <<vector_store, index_exists, index, result, calls,
                   llm_generation, search_arg, raised_in,
                   retrieved, dump_written, prev_kind, loads, tpc, asked>>

\* the mutant: the width is not passed on, the whole index comes back
SearchIgnoresK(docs, query, k) == SimilaritySearch(docs, IndexSize(docs))

\* vector_store.py:58-61: what search returns when similarity_search succeeds
Search(docs, query, k) == SimilaritySearch(docs, k)

\* the mutant: the raw question is searched for
RetrieveQueryIsQuestion(s) == PyStr(s.question)

\* agents.py:116
RetrieveQuery(s) == s.search_query

\* agents.py:113-122 with VectorStoreManager.search (vector_store.py:53-64)
\* and load_vector_store (vector_store.py:37-51)
RetrieveContext ==
    /\ pc = "retrieve_context"
    /\ search_arg' = [called |-> TRUE, query |-> RetrieveQuery(state)]
    /\ stages' = Append(stages, "retrieve_context")
    /\ IF ~vector_store.loaded /\ ~index_exists
       THEN \* vector_store.py:40-41: the load raises
            /\ RaiseFrom("retrieve_context",
                         RetrieveContextExcept(LoadVectorStoreExcept(IndexMissingError)))
            /\ UNCHANGED <<state, vector_store, retrieved, loads>>
       ELSE /\ vector_store' = IF vector_store.loaded THEN vector_store
                               ELSE [loaded |-> TRUE, docs |-> index]
            /\ loads' = IF vector_store.loaded THEN loads ELSE loads + 1
            /\ \/ \* vector_store.py:60 raises
                  /\ RaiseFrom("retrieve_context",
                               RetrieveContextExcept(SearchExcept(SearchError)))
                  /\ UNCHANGED <<state, retrieved>>
               \/ \* vector_store.py:60-61 and agents.py:118-119
                  /\ \E results \in Search(vector_store'.docs, RetrieveQuery(state), K) :
                       /\ retrieved' = results
                       /\ state' = [state EXCEPT !.context = results]
                  /\ pc' = NextNode("retrieve_context")
                  /\ UNCHANGED <<result, raised_in>>
    /\ UNCHANGED <<index_exists, index, calls, llm_analysis, llm_generation,
                   llm_calls, dump_written, prev_kind, tpc, asked>>

\* agents.py:124-140
CheckForTables ==
    /\ pc = "check_for_tables"
    /\ state' = [state EXCEPT !.context = ExpandContext(state.context)]
    /\ stages' = Append(stages, "check_for_tables")
    /\ pc' = NextNode("check_for_tables")
    /\ UNCHANGED <<vector_store, index_exists, index, result, calls,
                   llm_analysis, llm_generation, search_arg, raised_in,
                   retrieved, llm_calls, dump_written, prev_kind, loads, tpc, asked>>

\* the outcome of the generation stage, written to the state
Generated(r) ==
    IF r.raised
    THEN /\ RaiseFrom("generate_response", [type |-> "Exception", msg |-> "generation failed"])
         /\ UNCHANGED state
    ELSE /\ state' = [state EXCEPT !.messages = Append(state.messages, r.message)]
         /\ pc' = NextNode("generate_response")
         /\ UNCHANGED <<result, raised_in>>

\* the mutant: an invalid response makes the stage call the model again
GenerationInvocationsRetry(resp) == IF ResponseContent(resp).exc # "" THEN 2 ELSE 1

\* agents.py:176: llm.invoke is called once, nothing calls it again
GenerationInvocations(resp) == 1

\* agents.py:145-200
GenerateResponse ==
    /\ pc = "generate_response"
    /\ stages' = Append(stages, "generate_response")
    /\ \/ \* writing temp_context.txt fails (agents.py:155)
          /\ llm_generation' = LLMNotInvoked
          /\ dump_written' = FALSE
          /\ UNCHANGED llm_calls
          /\ Generated(GenerateResult(FALSE, LLMNotInvoked))
       \/ \E resp \in GenerationResponses :
            /\ llm_generation' = resp
            /\ dump_written' = TRUE
            /\ llm_calls' = [llm_calls EXCEPT !.generation = @ + GenerationInvocations(resp)]
            /\ Generated(GenerateResult(TRUE, resp))
    /\ UNCHANGED <<vector_store, index_exists, index, calls, llm_analysis, search_arg,
                   retrieved, prev_kind, loads, tpc, asked>>

\* agents.py:216-217  return final_state["messages"][-1].content
ProcessQuestionReturn ==
    /\ pc = "workflow_done"
    /\ IF state.messages = <<>>
       THEN RaiseFrom("process_question", [type |-> "IndexError", msg |-> "list index out of range"])
       ELSE /\ result' = Returned(state.messages[Len(state.messages)])
            /\ pc' = "returned"
            /\ UNCHANGED raised_in
    /\ UNCHANGED <<state, vector_store, index_exists, index, calls,
                   llm_analysis, llm_generation, search_arg,
                   retrieved, stages, llm_calls, dump_written, prev_kind, loads, tpc, asked>>

Next ==
    \/ ProcessQuestion
    \/ AnalyzeQuery
    \/ RetrieveContext
    \/ CheckForTables
    \/ GenerateResponse
    \/ ProcessQuestionReturn

Spec == Init /\ [][Next]_vars

(***************************************************************************)
(* The same program when the body of _check_for_tables raises: its handler *)
(* (agents.py:141-143) logs and re-raises whatever the body raised.        *)
(***************************************************************************)
UnexpectedError == [type |-> "Exception", msg |-> "unexpected error in find_table_reference"]

\* agents.py:126-143 when a line of the try body raises
CheckForTablesFault ==
    /\ pc = "check_for_tables"
    /\ RaiseFrom("check_for_tables", CheckForTablesExcept(UnexpectedError))
    /\ stages' = Append(stages, "check_for_tables")
    /\ UNCHANGED <<state, vector_store, index_exists, index, calls,
                   llm_analysis, llm_generation, search_arg,
                   retrieved, llm_calls, dump_written, prev_kind, loads, tpc, asked>>

NextFault == Next \/ CheckForTablesFault

SpecFault == Init /\ [][NextFault]_vars

(***************************************************************************)
(* Callers that share one VectorStoreManager and call search at the same   *)
(* time (vector_store.py:53-64).  search has no lock: a caller may be      *)
(* suspended between the test of self.vector_store and the assignment in   *)
(* load_vector_store.                                                      *)
(***************************************************************************)
\* vector_store.py:55  if not self.vector_store
ThreadSearchEnter(t) ==
    /\ tpc[t] = "start"
    /\ tpc' = [tpc EXCEPT ![t] = IF vector_store.loaded THEN "similarity_search"
                                                       ELSE "load_vector_store"]
    /\ UNCHANGED <<pc, state, vector_store, index_exists, index, result, calls,
                   llm_analysis, llm_generation, search_arg, raised_in, retrieved,
                   stages, llm_calls, dump_written, prev_kind, loads, asked>>

\* vector_store.py:56 and 37-51
ThreadLoadVectorStore(t) ==
    /\ tpc[t] = "load_vector_store"
    /\ IF ~index_exists
       THEN /\ tpc' = [tpc EXCEPT ![t] = "raised"]
            /\ UNCHANGED <<vector_store, loads>>
       ELSE /\ vector_store' = [loaded |-> TRUE, docs |-> index]
            /\ loads' = loads + 1
            /\ tpc' = [tpc EXCEPT ![t] = "similarity_search"]
    /\ UNCHANGED <<pc, state, index_exists, index, result, calls,
                   llm_analysis, llm_generation, search_arg, raised_in, retrieved,
                   stages, llm_calls, dump_written, prev_kind, asked>>

\* vector_store.py:58-64
ThreadSimilaritySearch(t) ==
    /\ tpc[t] = "similarity_search"
    /\ \E ok \in BOOLEAN : tpc' = [tpc EXCEPT ![t] = IF ok THEN "returned" ELSE "raised"]
    /\ UNCHANGED <<pc, state, vector_store, index_exists, index, result, calls,
                   llm_analysis, llm_generation, search_arg, raised_in, retrieved,
                   stages, llm_calls, dump_written, prev_kind, loads, asked>>

NextConcurrent ==
    \E t \in Threads :
        \/ ThreadSearchEnter(t)
        \/ ThreadLoadVectorStore(t)
        \/ ThreadSimilaritySearch(t)

SpecConcurrent == Init /\ [][NextConcurrent]_vars

(***************************************************************************)
(* Properties.                                                             *)
(***************************************************************************)
\* the last message of the state ("" when there is none)
LastMessage == IF state.messages = <<>> THEN "" ELSE state.messages[Len(state.messages)]

\* the analysis call raised, or its content is not parseable as JSON
AnalysisUnparseable ==
    \/ llm_analysis.kind = "raises"
    \/ llm_analysis.kind = "content" /\ ~JsonLoads(llm_analysis.content).ok

\* C1: whatever the question and whatever the model does in either stage, a
\* call that ends returns a non-empty string, and a call raises only because
\* the index is missing or the search itself failed.
C1_AnswerNonEmpty ==
    /\ pc = "returned" => result.kind = "return" /\ result.value # ""
    /\ pc = "workflow_done" => LastMessage # ""
    /\ pc = "raised" => result.kind = "raise" /\ result.error \in {IndexMissingError, SearchError}

C1_Witness ==
    /\ pc = "returned"
    /\ llm_analysis.kind = "none"
    /\ llm_generation = LLMContent("")
    /\ state.question = ""
    /\ result.value # ""

\* C2: when the retrieval stage runs and the persisted index does not exist,
\* the call raises the very error of the load step and holds no answer.
C2_IndexMissingPropagates ==
    (search_arg.called /\ ~index_exists) =>
        /\ pc = "raised"
        /\ result = Raised(IndexMissingError)
        /\ raised_in = "retrieve_context"
        /\ state.messages = <<>>
        /\ llm_generation = LLMNotInvoked

C2_Witness ==
    /\ pc = "raised"
    /\ ~index_exists
    /\ state.question = "What is the anchorage due?"
    /\ result.error = IndexMissingError

\* C3: when the model call of the generation stage raises, returns None or
\* returns an object without content, the stage does not raise, the answer
\* is the fixed error message and process_question returns it.
C3_GenerationErrorContained ==
    llm_generation.kind \in {"raises", "none", "no_content"} =>
        /\ pc \in {"workflow_done", "returned"}
        /\ state.messages = <<ErrorMessage>>
        /\ pc = "returned" => result = Returned(ErrorMessage)

C3_Witness ==
    /\ pc = "returned"
    /\ llm_generation.kind = "no_content"
    /\ result = Returned(ErrorMessage)

\* C4: when the model returns content in the generation stage, the answer is
\* the fixed insufficient-information message if the content is empty, and
\* the content itself otherwise; it is never the empty string.
C4_EmptyContentDefault ==
    llm_generation.kind = "content" =>
        /\ pc \in {"workflow_done", "returned"}
        /\ LastMessage = IF llm_generation.content = ""
                         THEN InsufficientMessage
                         ELSE llm_generation.content
        /\ LastMessage # ""
        /\ pc = "returned" => result = Returned(LastMessage)

C4_Witness ==
    /\ pc = "returned"
    /\ llm_generation = LLMContent("")
    /\ result = Returned(InsufficientMessage)

\* C5: when the analysis call raised or returned text that is not JSON, the
\* stage does not raise and search_query is the question itself.
C5_AnalysisFallback ==
    AnalysisUnparseable =>
        /\ state.search_query = PyStr(state.question)
        /\ raised_in # "analyze_query"
        /\ pc # "analyze_query"

C5_Witness ==
    /\ pc = "retrieve_context"
    /\ llm_analysis = LLMContent(NotJson)
    /\ state.question = "What is the anchorage due?"
    /\ state.search_query = PyStr("What is the anchorage due?")

\* C6: for a non-empty question, search_query after the analysis stage is a
\* non-empty string, whatever the model returned.
C6_RewrittenQueryNonEmpty ==
    (llm_analysis.kind # "not_invoked" /\ state.question # "") =>
        /\ state.search_query.type = "str"
        /\ state.search_query.value # ""

\* C7: the query passed to search is the search_query the analysis stage
\* wrote; when the model returned parseable output with search query q, it
\* is q.
C7_SearchUsesRewrittenQuery ==
    search_arg.called =>
        /\ search_arg.query = state.search_query
        /\ AnalysisOutcome(llm_analysis).exc = "" =>
               search_arg.query = JsonLoads(llm_analysis.content).search_query

C7_Witness ==
    /\ search_arg.called
    /\ llm_analysis = LLMContent(JsonGood)
    /\ state.question = "What is the anchorage due?"
    /\ search_arg.query = PyStr("anchorage dues cost")

\* C8 (as claimed): whenever process_question raises, the error was raised
\* in the retrieval stage.
C8_OnlyRetrievalRaises == pc = "raised" => raised_in = "retrieve_context"

\* C8 (amended): whenever process_question raises, the error was raised in
\* the retrieval stage or in the expansion stage; failures of the analysis
\* and of the generation stage never leave process_question, they are
\* replaced by the question as search query and by the fixed error message.
C8_RetrievalOrExpansionRaises ==
    /\ pc = "raised" => raised_in \in {"retrieve_context", "check_for_tables"}
    /\ (llm_analysis.kind # "not_invoked" /\ AnalysisOutcome(llm_analysis).exc # "") =>
           state.search_query = PyStr(state.question)
    /\ (pc \in {"workflow_done", "returned"}
          /\ (llm_generation.kind = "not_invoked" \/ ResponseContent(llm_generation).exc # "")) =>
           LastMessage = ErrorMessage

C8_Witness ==
    /\ pc = "raised"
    /\ raised_in = "check_for_tables"
    /\ result = Raised(UnexpectedError)

\* C9: when the index holds two different chunks with the marker and the
\* first of them is the top match, the context after the expansion stage
\* holds the second.
C9_ExpansionPullsReferenced ==
    (pc \in {"generate_response", "workflow_done", "returned"}
       /\ state.context # <<>> /\ HasTableMarker(state.context[1])) =>
        \A b \in Chunks :
            (vector_store.docs[b] > 0 /\ b # state.context[1] /\ HasTableMarker(b)) =>
                b \in Range(state.context)

\* C10: a second run of the expansion on the context the stage produced
\* gives the same set of chunks and the same length.
C10_ExpansionIdempotent ==
    pc = "generate_response" =>
        LET once == state.context
            twice == ExpandContext(once)
        IN  Range(twice) = Range(once) /\ Len(twice) = Len(once)

C10_Witness ==
    /\ pc = "generate_response"
    /\ \E i, j \in DOMAIN state.context :
         /\ state.context[i] # state.context[j]
         /\ HasTableMarker(state.context[i])
         /\ HasTableMarker(state.context[j])

\* the expansion stage of this call has run and did not raise
AfterExpansion == pc \in {"generate_response", "workflow_done", "returned"}

\* the sequence holds two structurally equal chunks
HasDuplicates(seq) == \E i, j \in DOMAIN seq : i # j /\ seq[i] = seq[j]

\* C11: the context after the expansion stage is at least as long as the
\* context the stage was given, also when that holds equal chunks twice.
C11_ExpansionMonotone ==
    AfterExpansion => Len(state.context) >= Len(retrieved)

C11_Witness ==
    /\ pc = "generate_response"
    /\ HasDuplicates(retrieved)
    /\ \E i \in DOMAIN retrieved : HasTableMarker(retrieved[i])
    /\ Len(state.context) >= Len(retrieved)

\* C12: right after the retrieval stage the context holds at most k = 3
\* chunks, all of the index, in the order in which search returned them.
C12_RetrievalWidth ==
    pc = "check_for_tables" =>
        /\ Len(state.context) <= K
        /\ state.context = retrieved
        /\ \A c \in Chunks : Count(state.context, c) <= vector_store.docs[c]

C12_Witness ==
    /\ pc = "check_for_tables"
    /\ IndexSize(vector_store.docs) > K
    /\ Len(state.context) = K

\* the nodes that have run when the call stands at the given place
StagesRunAt(place) ==
    CASE place = "analyze_query" -> 0
      [] place = "retrieve_context" -> 1
      [] place = "check_for_tables" -> 2
      [] place = "generate_response" -> 3
      [] OTHER -> 4

\* C13: the nodes run in the order analyze_query, retrieve_context,
\* check_for_tables, generate_response, each at most once and one after
\* the other; the workflow ends after generate_response, and only that
\* node writes the answer.
C13_LinearWorkflow ==
    /\ pc \in {"analyze_query", "retrieve_context", "check_for_tables",
               "generate_response", "workflow_done", "returned"} =>
           stages = SubSeq(WorkflowOrder, 1, StagesRunAt(pc))
    /\ pc = "raised" =>
           \E n \in 1..Len(WorkflowOrder) : stages = SubSeq(WorkflowOrder, 1, n)
    /\ pc = "idle" => stages = <<>>
    /\ state.messages # <<>> =>
           /\ stages = WorkflowOrder
           /\ Len(state.messages) = 1

C13_Witness ==
    /\ pc = "returned"
    /\ stages = WorkflowOrder
    /\ Len(state.messages) = 1

\* C14 (as claimed): after the expansion stage the context holds no two
\* structurally equal chunks.
C14_NoDuplicatesAfterExpansion ==
    AfterExpansion => ~HasDuplicates(state.context)

\* C14 (amended): after the expansion stage the context begins with the
\* retrieved chunks in their order, equal ones included, and what the stage
\* appended holds no chunk equal to a retrieved one and no chunk twice; so
\* the context is free of duplicates whenever the retrieved chunks are.
C14_NoDuplicatesAdded ==
    AfterExpansion =>
        /\ Len(state.context) >= Len(retrieved)
        /\ SubSeq(state.context, 1, Len(retrieved)) = retrieved
        /\ LET added == SubSeq(state.context, Len(retrieved) + 1, Len(state.context))
           IN  /\ Range(added) \cap Range(retrieved) = {}
               /\ ~HasDuplicates(added)
        /\ ~HasDuplicates(retrieved) => ~HasDuplicates(state.context)

C14_Witness ==
    /\ pc = "generate_response"
    /\ HasDuplicates(retrieved)
    /\ HasDuplicates(state.context)
    /\ \E i, j \in DOMAIN retrieved :
         /\ retrieved[i] # retrieved[j]
         /\ HasTableMarker(retrieved[i])
         /\ HasTableMarker(retrieved[j])

\* C15: on one manager the index is loaded at most once, however many
\* callers search, one after the other or at the same time.
C15_LoadAtMostOnce == loads <= 1

\* C16 (as claimed): a None response, or a response without content, makes
\* the generation stage fail with an error that reaches its caller.
C16_InvalidResponseFatal ==
    llm_generation.kind \in {"none", "no_content"} =>
        pc = "raised" /\ raised_in = "generate_response"

\* C16 (amended): a None response, or a response without content, raises
\* inside the generation stage only; the stage's own handler catches the
\* error, the stage returns with the fixed error message as the answer and
\* nothing reaches its caller.
C16_InvalidResponseContained ==
    llm_generation.kind \in {"none", "no_content"} =>
        /\ ResponseContent(llm_generation).exc \in {"ValueError", "AttributeError"}
        /\ pc # "raised"
        /\ raised_in = ""
        /\ LastMessage = ErrorMessage

C16_Witness ==
    /\ pc = "workflow_done"
    /\ llm_generation = LLMNone
    /\ LastMessage = ErrorMessage

\* the generation stage of this call has run and did not raise
AfterGeneration == pc \in {"workflow_done", "returned"}

\* the analysis stage of this call has run
AfterAnalysis == stages # <<>>

\* C17 (as claimed): per question the model is invoked exactly once by the
\* analysis stage and at most once by the generation stage, exactly once
\* when retrieval and expansion succeeded.
C17_InvokedOncePerStage ==
    /\ AfterAnalysis => llm_calls.analysis = 1
    /\ llm_calls.generation <= 1
    /\ AfterGeneration => llm_calls.generation = 1

\* C17 (amended): per question the model is invoked exactly once by the
\* analysis stage and at most once by the generation stage: exactly once
\* when retrieval and expansion succeeded and temp_context.txt was written,
\* not at all when writing that file failed.  No stage invokes it again.
C17_InvokedOnceUnlessDumpFails ==
    /\ AfterAnalysis => llm_calls.analysis = 1
    /\ ~AfterAnalysis => llm_calls.analysis = 0
    /\ llm_calls.generation <= 1
    /\ AfterGeneration => llm_calls.generation = (IF dump_written THEN 1 ELSE 0)
    /\ ~AfterGeneration /\ pc # "raised" => llm_calls.generation = 0

C17_Witness ==
    /\ pc = "returned"
    /\ llm_analysis = LLMRaises
    /\ llm_generation = LLMRaises
    /\ llm_calls = [analysis |-> 1, generation |-> 1]

\* C18: every call starts from a fresh state (no messages, no context,
\* empty search_query), whatever the earlier calls did; the context holds
\* only chunks retrieved by this call, and the answer returned is the one
\* message, written by this call's generation stage.
C18_FreshStatePerQuestion ==
    /\ pc = "analyze_query" =>
           /\ state.messages = <<>>
           /\ state.context = <<>>
           /\ state.search_query = PyStr("")
    /\ Range(state.context) \subseteq Range(retrieved)
    /\ ~search_arg.called => state.context = <<>>
    /\ pc = "returned" =>
           /\ state.messages = <<GenerateResult(dump_written, llm_generation).message>>
           /\ result = Returned(state.messages[1])

C18_Witness ==
    /\ pc = "analyze_query"
    /\ calls = 2
    /\ prev_kind = "raise"
    /\ vector_store.loaded

\* C19: no stage changes the question: at every point of a call it is the
\* string that was passed to process_question.
C19_QuestionUnchanged ==
    pc # "idle" => state.question = asked

C19_Witness ==
    /\ pc = "returned"
    /\ asked = "What is the anchorage due?"
    /\ state.question = asked
    /\ state.search_query = PyStr("anchorage dues cost")

AnalysisParsedWithoutQuery ==
    /\ llm_analysis.kind = "content"
    /\ JsonLoads(llm_analysis.content).ok
    /\ \/ JsonLoads(llm_analysis.content).type # "dict"
       \/ ~JsonLoads(llm_analysis.content).has_search_query

\* C21: when the analysis model returns valid JSON without a "search_query"
\* key, or valid JSON that is no object, the stage does not raise and
\* search_query is the question, as for text that is no JSON.
C21_MissingKeyFallback ==
    AnalysisParsedWithoutQuery =>
        /\ AnalysisOutcome(llm_analysis).exc \in {"KeyError", "TypeError"}
        /\ state.search_query = PyStr(state.question)
        /\ raised_in # "analyze_query"
        /\ stages # <<>> /\ stages[1] = "analyze_query"
        /\ pc # "analyze_query"

C21_Witness ==
    /\ pc = "retrieve_context"
    /\ llm_analysis = LLMContent(JsonNoKey)
    /\ state.question = "What are the port charges?"
    /\ state.search_query = PyStr("What are the port charges?")

====
